---- MODULE Spec2Model ----
(***************************************************************************)
(* The file-based hash chain of the Healthcare DID proof of concept.       *)
(*                                                                         *)
(* The repository holds the chain twice: the standalone class of           *)
(* src/blockchain.js and the class inlined in src/server.js.  The variable *)
(* impl says which of the two classes runs in a behaviour; the actions     *)
(* branch on it.  The server class names three head fields differently     *)
(* (latestHash, totalTx, genesis) and the link field prevHash; the model   *)
(* uses the names of the standalone class for both.                        *)
(*                                                                         *)
(* Strings are TLA+ strings.  sha256 is modelled as an injective symbolic  *)
(* digest: the digest of s is the string "sha256(s)", so two digests are   *)
(* equal exactly when their inputs are.                                    *)
(***************************************************************************)
EXTENDS Integers, Sequences, FiniteSets, TLC

\* Bounds of the model.
MaxAppends == 5
MaxClock == 1
MaxLimit == 3
MaxTampers == 2
MaxTamperAppends == 2
MaxFaultHeight == 2
MaxPeerAppends == 3
MaxCrashes == 2
MaxTxs == 4
MaxOtps == 1
MaxRouteAppends == 2
MaxOtpLifetimes == 1

\* The two chain classes of the repository.
Impls == {"module", "server"}

\* Inputs of addTransaction(type, data).
TxTypes == {"DID_REGISTRATION", "CONSENT_GRANTED"}
Payloads == {"p1"}

\* A transaction object without a nonce key (the server's genesis transaction).
NoNonce == -1

VARIABLES
    impl,          \* which class runs: "module" (blockchain.js) or "server" (server.js)
    now,           \* the millisecond clock read by new Date() and Date.now()
    state,         \* this.state, the head state held in memory
    stateFile,     \* the content of state.json
    blocks,        \* the files of blocks/, keyed by block number
    transactions,  \* the files of transactions/, keyed by transaction hash
    receipts,      \* the receipts returned by addTransaction, in call order
    appended,      \* the transaction objects built by addTransaction, in call order
    outcome,       \* how the latest addTransaction call ended
    tampers,       \* what was done to the block files from outside: <<number, kind>>
    torn,          \* the paths of the files that hold only a part of their content
    merkleInput,   \* a transaction list handed to calculateMerkleRoot
    merkleOutput,  \* what calculateMerkleRoot returned for it
    patients,      \* database.data.patients: the record of id i at index i
    otpCodes,      \* database.data.otpCodes
    consents,      \* database.data.consents
    accessLogs,    \* database.data.accessLogs
    tempPatients,  \* database.data.tempPatients
    call           \* the arguments of the latest verifyOTP call

vars == <<impl, now, state, stateFile, blocks, transactions, receipts, appended,
          outcome, tampers, torn, merkleInput, merkleOutput, patients, otpCodes,
          consents, accessLogs, tempPatients, call>>

merkleVars == <<merkleInput, merkleOutput>>

appVars == <<patients, otpCodes, consents, accessLogs, tempPatients, call>>

-----------------------------------------------------------------------------
(* Strings, numbers and digests *)

Digit(d) ==
    CASE d = 0 -> "0" [] d = 1 -> "1" [] d = 2 -> "2" [] d = 3 -> "3"
      [] d = 4 -> "4" [] d = 5 -> "5" [] d = 6 -> "6" [] d = 7 -> "7"
      [] d = 8 -> "8" [] d = 9 -> "9"

RECURSIVE NumToStr(_)
\* The decimal rendering of a number in a template literal or JSON.stringify.
NumToStr(n) ==
    IF n < 0 THEN "-" \o NumToStr(0 - n)
    ELSE IF n < 10 THEN Digit(n)
    ELSE NumToStr(n \div 10) \o Digit(n % 10)

\* new Date(ms).toISOString(): the ISO-8601 rendering of a millisecond instant.
toISOString(ms) == "T" \o NumToStr(ms) \o "Z"

\* '0'.repeat(64)
ZeroHash == "0000"

sha256(data) == "sha256(" \o data \o ")"

\* JSON.stringify of a transaction object: its keys in insertion order
\* (type, data, timestamp, nonce when present, hash when present).
stringifyTx(tx, withHash) ==
    "{type:" \o tx.type \o ",data:" \o tx.data \o ",timestamp:" \o tx.timestamp
    \o (IF tx.nonce = NoNonce THEN "" ELSE ",nonce:" \o NumToStr(tx.nonce))
    \o (IF withHash THEN ",hash:" \o tx.hash ELSE "")
    \o "}"

calculateBlockHash(block) ==
    sha256(NumToStr(block.number) \o "|" \o block.timestamp \o "|"
           \o block.previousHash \o "|" \o block.merkleRoot \o "|"
           \o NumToStr(block.nonce))

\* Mutant: an unpaired last digest is promoted unchanged.
merkleLevel_promote(hashes) ==
    [k \in 1..((Len(hashes) + 1) \div 2) |->
        IF 2 * k <= Len(hashes) THEN sha256(hashes[2 * k - 1] \o hashes[2 * k])
        ELSE hashes[2 * k - 1]]

\* Mutant: every pair is reduced to its left digest.
merkleLevel_leftOnly(hashes) ==
    [k \in 1..((Len(hashes) + 1) \div 2) |->
        sha256(hashes[2 * k - 1] \o hashes[2 * k - 1])]

\* One level of the merkle loop: pairs left to right, an unpaired last digest
\* is combined with itself.
merkleLevel(hashes) ==
    [k \in 1..((Len(hashes) + 1) \div 2) |->
        LET left == hashes[2 * k - 1]
            right == IF 2 * k <= Len(hashes) THEN hashes[2 * k] ELSE left
        IN sha256(left \o right)]

RECURSIVE merkleLoop(_)
merkleLoop(hashes) ==
    IF Len(hashes) > 1 THEN merkleLoop(merkleLevel(hashes)) ELSE hashes[1]

\* The leaf digests are taken over the stored transaction objects, hash included.
merkleOver(txs, emptySentinel) ==
    IF Len(txs) = 0 THEN sha256(emptySentinel)
    ELSE merkleLoop([i \in 1..Len(txs) |-> sha256(stringifyTx(txs[i], TRUE))])

calculateMerkleRoot(txs) == merkleOver(txs, "empty-block")

srv_calculateMerkleRoot(txs) == merkleOver(txs, "empty")

\* nonce: tx.nonce || 0
calculateTransactionHash(tx) ==
    sha256(stringifyTx([tx EXCEPT !.nonce = IF @ = NoNonce THEN 0 ELSE @], FALSE))

MerkleRootOf(txs) ==
    IF impl = "module" THEN calculateMerkleRoot(txs) ELSE srv_calculateMerkleRoot(txs)

-----------------------------------------------------------------------------
(* Genesis *)

GenesisData == "genesis-data"

\* Mutant: the merkle root is taken before the transaction carries its hash.
createGenesisBlock_merkleFirst(genesisTimestamp) ==
    LET tx0 == [type |-> "GENESIS", data |-> GenesisData,
                timestamp |-> genesisTimestamp, nonce |-> 0, hash |-> ""]
        tx == [tx0 EXCEPT !.hash = calculateTransactionHash(tx0)]
        b0 == [number |-> 0, timestamp |-> genesisTimestamp,
               previousHash |-> ZeroHash,
               merkleRoot |-> calculateMerkleRoot(<<tx0>>),
               transactions |-> <<tx>>, nonce |-> 0, hash |-> ""]
    IN [b0 EXCEPT !.hash = calculateBlockHash(b0)]

\* blockchain.js createGenesisBlock: the block built for this.state.genesisTimestamp.
createGenesisBlock(genesisTimestamp) ==
    LET tx0 == [type |-> "GENESIS", data |-> GenesisData,
                timestamp |-> genesisTimestamp, nonce |-> 0, hash |-> ""]
        tx == [tx0 EXCEPT !.hash = calculateTransactionHash(tx0)]
        b0 == [number |-> 0, timestamp |-> genesisTimestamp,
               previousHash |-> ZeroHash,
               merkleRoot |-> calculateMerkleRoot(<<tx>>),
               transactions |-> <<tx>>, nonce |-> 0, hash |-> ""]
    IN [b0 EXCEPT !.hash = calculateBlockHash(b0)]

\* server.js createGenesisBlock: the genesis transaction has no nonce and its
\* hash is the digest of 'genesis-' + Date.now().
srv_createGenesisBlock(genesis, dateNow) ==
    LET tx == [type |-> "GENESIS", data |-> GenesisData, timestamp |-> genesis,
               nonce |-> NoNonce, hash |-> sha256("genesis-" \o NumToStr(dateNow))]
        b0 == [number |-> 0, timestamp |-> genesis, previousHash |-> ZeroHash,
               merkleRoot |-> "", transactions |-> <<tx>>, nonce |-> 0, hash |-> ""]
        b1 == [b0 EXCEPT !.merkleRoot = srv_calculateMerkleRoot(b0.transactions)]
    IN [b1 EXCEPT !.hash = calculateBlockHash(b1)]

-----------------------------------------------------------------------------
(* Ledger store *)

\* An empty directory.
NoFiles == [f \in {} |-> f]

\* fs.existsSync(getBlockPath(n))
blockExists(n) == n \in DOMAIN blocks

\* getBlock(n), for a block file that exists.
getBlock(n) == blocks[n]

getLatestBlock == getBlock(state.blockHeight)

\* The record written to transactions/<hash>.json for one transaction of a block.
txRecord(tx, block) ==
    [tx |-> tx, blockNumber |-> block.number,
     blockHash |-> IF impl = "module" THEN block.hash ELSE ""]

RECURSIVE writeTxs(_, _, _)
writeTxs(files, block, i) ==
    IF i > Len(block.transactions) THEN files
    ELSE LET tx == block.transactions[i]
         IN writeTxs((tx.hash :> txRecord(tx, block)) @@ files, block, i + 1)

\* saveBlock: the block file, then one transaction file per transaction.
saveBlockFiles(files, block) == (block.number :> block) @@ files

saveBlockTxs(files, block) == writeTxs(files, block, 1)

\* What getBlock and getTransaction return for a file that does not exist.
Null == [null |-> TRUE]

\* getTransaction of blockchain.js; the class of server.js has no such method
\* and its records are read from transactions/<hash>.json directly.
getTransaction(txHash) ==
    IF txHash \in DOMAIN transactions THEN transactions[txHash] ELSE Null

RECURSIVE padStart(_, _, _)
padStart(s, len, targetLength) ==
    IF len >= targetLength THEN s ELSE padStart("0" \o s, len + 1, targetLength)

RECURSIVE NumDigits(_)
NumDigits(n) == IF n < 10 THEN 1 ELSE 1 + NumDigits(n \div 10)

getBlockPath(blockNumber) ==
    "blocks/block-" \o padStart(NumToStr(blockNumber), NumDigits(blockNumber),
                                IF impl = "module" THEN 10 ELSE 8)
        \o ".json"

txPath(txHash) == "transactions/" \o txHash \o ".json"

StatePath == "state.json"

txPaths(block) == {txPath(block.transactions[i].hash) : i \in 1..Len(block.transactions)}

\* The paths that one complete addTransaction writes as a whole.
writtenPaths(block) == {getBlockPath(block.number), StatePath} \cup txPaths(block)

-----------------------------------------------------------------------------
(* Initial state: the constructor on an empty data directory *)

\* Mutant: the height of the server's empty head state is never set to 0.
initialState_preGenesis(genesisBlock) ==
    [blockHeight |-> -1, latestBlockHash |-> genesisBlock.hash,
     totalTransactions |-> 1, genesisTimestamp |-> genesisBlock.timestamp,
     chainId |-> "medchain-local-001"]

\* Mutant: state.json is written before the genesis hash is put into the head.
initialState_zeroHash(genesisBlock) ==
    [blockHeight |-> 0, latestBlockHash |-> ZeroHash,
     totalTransactions |-> 1, genesisTimestamp |-> genesisBlock.timestamp,
     chainId |-> "medchain-local-001"]

\* The head state the constructor leaves on an empty directory.
initialState(genesisBlock) ==
    [blockHeight |-> 0, latestBlockHash |-> genesisBlock.hash,
     totalTransactions |-> 1, genesisTimestamp |-> genesisBlock.timestamp,
     chainId |-> "medchain-local-001"]

\* No call of calculateMerkleRoot was made yet.
NoRoot == ""

InitStore ==
    /\ impl \in Impls
    /\ \E d \in 0..1 :
        LET g == IF impl = "module" THEN createGenesisBlock(toISOString(0))
                 ELSE srv_createGenesisBlock(toISOString(0), d)
        IN /\ now = (IF impl = "module" THEN 0 ELSE d)
           /\ blocks = saveBlockFiles(NoFiles, g)
           /\ transactions = saveBlockTxs(NoFiles, g)
           /\ state = initialState(g)
           /\ stateFile = initialState(g)
    /\ receipts = <<>>
    /\ appended = <<>>
    /\ outcome = "none"
    /\ tampers = {}
    /\ torn = {}

\* The demo patients of seedData; none of them has a did key.
NoDid == ""
SeedNiks == <<"3201234567890001", "3201234567890002">>

\* verifyOTP was not called yet.
NoCall == [requestId |-> "", otp |-> ""]

\* JSONDatabase on an empty directory: load() finds no file and seeds the data.
InitDatabase ==
    /\ patients = [i \in 1..Len(SeedNiks) |-> [nik |-> SeedNiks[i], did |-> NoDid]]
    /\ otpCodes = <<>>
    /\ consents = <<>>
    /\ accessLogs = <<>>
    /\ tempPatients = <<>>
    /\ call = NoCall

Init ==
    /\ InitStore
    /\ InitDatabase
    /\ merkleInput = <<>>
    /\ merkleOutput = NoRoot

-----------------------------------------------------------------------------
(* addTransaction *)

\* blockchain.js addTransaction, lines 186-192
buildTransaction(type, data, timestamp, nonce) ==
    LET tx0 == [type |-> type, data |-> data, timestamp |-> timestamp,
                nonce |-> nonce, hash |-> ""]
    IN [tx0 EXCEPT !.hash = calculateTransactionHash(tx0)]

\* server.js addTransaction, lines 119-125: the nonce stored and the nonce
\* hashed are two reads of Date.now().
srv_buildTransaction(type, data, timestamp, nonce, hashedNonce) ==
    [type |-> type, data |-> data, timestamp |-> timestamp, nonce |-> nonce,
     hash |-> sha256(stringifyTx([type |-> type, data |-> data,
                                  timestamp |-> timestamp, nonce |-> hashedNonce,
                                  hash |-> ""], FALSE))]

\* Mutant: the new block repeats the link of the latest block.
newBlock_linkStale(latestBlock, timestamp, tx) ==
    LET b0 == [number |-> latestBlock.number + 1, timestamp |-> timestamp,
               previousHash |-> latestBlock.previousHash, merkleRoot |-> "",
               transactions |-> <<tx>>, nonce |-> 0, hash |-> ""]
        b1 == [b0 EXCEPT !.merkleRoot = MerkleRootOf(b0.transactions)]
    IN [b1 EXCEPT !.hash = calculateBlockHash(b1)]

\* Mutant: the block hash is taken before the merkle root is set.
newBlock_hashFirst(latestBlock, timestamp, tx) ==
    LET b0 == [number |-> latestBlock.number + 1, timestamp |-> timestamp,
               previousHash |-> latestBlock.hash, merkleRoot |-> "",
               transactions |-> <<tx>>, nonce |-> 0, hash |-> ""]
        b1 == [b0 EXCEPT !.hash = calculateBlockHash(b0)]
    IN [b1 EXCEPT !.merkleRoot = MerkleRootOf(b0.transactions)]

\* The block wrapped around one transaction, linked to the stored latest block.
newBlock(latestBlock, timestamp, tx) ==
    LET b0 == [number |-> latestBlock.number + 1, timestamp |-> timestamp,
               previousHash |-> latestBlock.hash, merkleRoot |-> "",
               transactions |-> <<tx>>, nonce |-> 0, hash |-> ""]
        b1 == [b0 EXCEPT !.merkleRoot = MerkleRootOf(b0.transactions)]
    IN [b1 EXCEPT !.hash = calculateBlockHash(b1)]

\* Mutant: the height is not advanced.
advanceState_keepHeight(s, block) ==
    [s EXCEPT !.latestBlockHash = block.hash,
              !.totalTransactions = @ + 1]

\* Mutant: the head keeps the hash of the previous block.
advanceState_keepHash(s, block) ==
    [s EXCEPT !.blockHeight = block.number,
              !.totalTransactions = @ + 1]

\* Mutant: the transaction of the new block is not counted.
advanceState_keepTotal(s, block) ==
    [s EXCEPT !.blockHeight = block.number,
              !.latestBlockHash = block.hash]

\* The head state after a block was saved.
advanceState(s, block) ==
    [s EXCEPT !.blockHeight = block.number,
              !.latestBlockHash = block.hash,
              !.totalTransactions = @ + 1]

\* Mutant: the receipt names the number of the previous block.
makeReceipt_prevNumber(tx, block, timestamp) ==
    [txHash |-> tx.hash, blockNumber |-> block.number - 1,
     blockHash |-> block.hash, timestamp |-> timestamp]

\* The receipt returned by addTransaction.
makeReceipt(tx, block, timestamp) ==
    [txHash |-> tx.hash, blockNumber |-> block.number,
     blockHash |-> block.hash, timestamp |-> timestamp]

\* The part of addTransaction after the transaction object is built.
commitTransaction(tx, timestamp) ==
    LET block == newBlock(getLatestBlock, timestamp, tx)
    IN /\ blocks' = saveBlockFiles(blocks, block)
       /\ transactions' = saveBlockTxs(transactions, block)
       /\ state' = advanceState(state, block)
       /\ stateFile' = advanceState(state, block)
       /\ receipts' = Append(receipts, makeReceipt(tx, block, timestamp))
       /\ appended' = Append(appended, tx)
       /\ torn' = torn \ writtenPaths(block)

\* d1, d2: whether the clock ticks between the reads of the clock in one call.
addTransaction(type, data, d1, d2) ==
    /\ Len(receipts) < MaxAppends
    /\ blockExists(state.blockHeight)
    /\ now + d1 + d2 <= MaxClock
    /\ IF impl = "module"
       THEN /\ d2 = 0
            /\ commitTransaction(
                   buildTransaction(type, data, toISOString(now), now + d1),
                   toISOString(now))
       ELSE commitTransaction(
                srv_buildTransaction(type, data, toISOString(now), now + d1,
                                     now + d1 + d2),
                toISOString(now))
    /\ now' = now + d1 + d2
    /\ outcome' = "receipt"
    /\ UNCHANGED <<merkleVars, appVars, impl, tampers>>

\* Time passes between two calls.
Tick ==
    /\ now < MaxClock
    /\ now' = now + 1
    /\ UNCHANGED <<merkleVars, appVars, impl, state, stateFile, blocks, transactions, receipts, appended,
                   outcome, tampers, torn>>

AppendStep == \E type \in TxTypes, data \in Payloads, d1 \in 0..1, d2 \in 0..1 :
    addTransaction(type, data, d1, d2)

-----------------------------------------------------------------------------
(* validateChain *)

\* A report field that the returned object does not carry.
NoValue == -1

errorEntry(i, kind) == [block |-> i, error |-> kind]

\* Mutant: a block whose predecessor cannot be read is reported as a broken link.
blockErrors_linkToMissing(i) ==
    IF ~blockExists(i) THEN <<errorEntry(i, "Block file missing")>>
    ELSE LET block == getBlock(i)
         IN (IF calculateBlockHash(block) # block.hash
             THEN <<errorEntry(i, "Hash mismatch")>> ELSE <<>>)
            \o (IF calculateMerkleRoot(block.transactions) # block.merkleRoot
                THEN <<errorEntry(i, "Merkle root mismatch")>> ELSE <<>>)
            \o (IF i > 0 /\ (~blockExists(i - 1)
                              \/ block.previousHash # getBlock(i - 1).hash)
                THEN <<errorEntry(i, "Chain broken")>> ELSE <<>>)

\* blockchain.js validateChain, the body of the loop for block i.
blockErrors(i) ==
    IF ~blockExists(i) THEN <<errorEntry(i, "Block file missing")>>
    ELSE LET block == getBlock(i)
         IN (IF calculateBlockHash(block) # block.hash
             THEN <<errorEntry(i, "Hash mismatch")>> ELSE <<>>)
            \o (IF calculateMerkleRoot(block.transactions) # block.merkleRoot
                THEN <<errorEntry(i, "Merkle root mismatch")>> ELSE <<>>)
            \o (IF i > 0 /\ blockExists(i - 1)
                         /\ block.previousHash # getBlock(i - 1).hash
                THEN <<errorEntry(i, "Chain broken")>> ELSE <<>>)

RECURSIVE validateWalk(_)
\* The errors pushed for the blocks i..blockHeight.
validateWalk(i) ==
    IF i > state.blockHeight THEN <<>> ELSE blockErrors(i) \o validateWalk(i + 1)

validateChain ==
    LET errors == validateWalk(0)
    IN [valid |-> Len(errors) = 0,
        blocksVerified |-> state.blockHeight + 1,
        errors |-> errors]

RECURSIVE srv_validateWalk(_)
\* server.js validateChain: the loop starts at block 1 and returns at the first
\* failed check; the result is the returned error, if any.
srv_validateWalk(i) ==
    IF i > state.blockHeight THEN <<>>
    ELSE IF ~blockExists(i) \/ ~blockExists(i - 1)
         THEN <<errorEntry(i, "Missing block")>>
    ELSE IF getBlock(i).previousHash # getBlock(i - 1).hash
         THEN <<errorEntry(i, "Chain broken")>>
    ELSE IF calculateBlockHash(getBlock(i)) # getBlock(i).hash
         THEN <<errorEntry(i, "Tampered block")>>
    ELSE srv_validateWalk(i + 1)

\* The server's report {valid, error} or {valid, blocksVerified}; its one
\* error string is held as a sequence of at most one entry.
srv_validateChain ==
    LET errors == srv_validateWalk(1)
    IN IF Len(errors) = 0
       THEN [valid |-> TRUE, blocksVerified |-> state.blockHeight + 1,
             errors |-> <<>>]
       ELSE [valid |-> FALSE, blocksVerified |-> NoValue, errors |-> errors]

\* validateChain() of the class that runs.
Validate == IF impl = "module" THEN validateChain ELSE srv_validateChain

-----------------------------------------------------------------------------
(* getStats, getRecentTransactions *)

getStats ==
    [chainId |-> state.chainId,
     blockHeight |-> state.blockHeight,
     totalBlocks |-> state.blockHeight + 1,
     totalTransactions |-> state.totalTransactions,
     latestBlockHash |-> state.latestBlockHash,
     genesisTimestamp |-> state.genesisTimestamp]

srv_getStats ==
    LET validation == srv_validateChain
    IN [chainId |-> state.chainId,
        totalBlocks |-> state.blockHeight + 1,
        totalTransactions |-> state.totalTransactions,
        latestBlockHash |-> state.latestBlockHash,
        valid |-> validation.valid,
        blocksVerified |-> validation.blocksVerified,
        errors |-> validation.errors]

\* getStats().valid of the class that runs; the object returned by
\* blockchain.js getStats has no such key.
StatsValid ==
    IF impl = "module" THEN "undefined"
    ELSE IF srv_getStats.valid THEN "true" ELSE "false"

\* getStats().totalBlocks of the class that runs.
StatsTotalBlocks ==
    IF impl = "module" THEN getStats.totalBlocks ELSE srv_getStats.totalBlocks

\* blockchain.js: one entry of the list returned by getRecentTransactions.
recentEntry(tx, block) ==
    [hash |-> tx.hash, type |-> tx.type, timestamp |-> tx.timestamp,
     blockNumber |-> block.number, blockHash |-> block.hash, data |-> tx.data]

\* server.js: { ...tx, blockNumber: block.number }
srv_recentEntry(tx, block) ==
    [type |-> tx.type, data |-> tx.data, timestamp |-> tx.timestamp,
     nonce |-> tx.nonce, hash |-> tx.hash, blockNumber |-> block.number]

RECURSIVE pushBlockTxs(_, _, _, _)
\* blockchain.js: the inner loop over block.transactions, with its break.
pushBlockTxs(acc, block, j, limit) ==
    IF j > Len(block.transactions) THEN acc
    ELSE LET acc2 == Append(acc, recentEntry(block.transactions[j], block))
         IN IF Len(acc2) >= limit THEN acc2
            ELSE pushBlockTxs(acc2, block, j + 1, limit)

RECURSIVE recentWalk(_, _, _)
recentWalk(i, limit, acc) ==
    IF ~(i >= 0 /\ Len(acc) < limit) THEN acc
    ELSE IF blockExists(i)
         THEN recentWalk(i - 1, limit, pushBlockTxs(acc, getBlock(i), 1, limit))
         ELSE recentWalk(i - 1, limit, acc)

\* Mutant: the walk starts below the head.
getRecentTransactions_skipHead(limit) ==
    recentWalk(state.blockHeight - 1, limit, <<>>)

getRecentTransactions(limit) == recentWalk(state.blockHeight, limit, <<>>)

RECURSIVE srv_recentWalk(_, _, _)
\* server.js: every transaction of a block is pushed; the list is cut afterwards.
srv_recentWalk(i, limit, acc) ==
    IF ~(i >= 0 /\ Len(acc) < limit) THEN acc
    ELSE IF blockExists(i)
         THEN srv_recentWalk(i - 1, limit,
                  acc \o [j \in 1..Len(getBlock(i).transactions) |->
                             srv_recentEntry(getBlock(i).transactions[j], getBlock(i))])
         ELSE srv_recentWalk(i - 1, limit, acc)

\* txs.slice(0, limit), for limit >= 0
srv_getRecentTransactions(limit) ==
    LET txs == srv_recentWalk(state.blockHeight, limit, <<>>)
    IN SubSeq(txs, 1, IF limit < Len(txs) THEN limit ELSE Len(txs))

RecentTransactions(limit) ==
    IF impl = "module" THEN getRecentTransactions(limit)
    ELSE srv_getRecentTransactions(limit)

-----------------------------------------------------------------------------
(* The specification of the engine alone *)

Next == AppendStep \/ Tick

Spec == Init /\ [][Next]_vars

-----------------------------------------------------------------------------
(* The engine with block files modified from outside *)

TamperKinds == {"payload", "hash", "previousHash", "merkleRoot", "delete"}

\* A payload and a digest that the engine never writes.
TamperedPayload == "tampered"
ForgedHash == sha256("forged")

\* Somebody edits or removes the file of block n between two calls.
Tamper(n, kind) ==
    /\ Cardinality(tampers) < MaxTampers
    /\ blockExists(n)
    /\ <<n, kind>> \notin tampers
    /\ blocks' =
         CASE kind = "payload" ->
                [blocks EXCEPT ![n].transactions[1].data = TamperedPayload]
           [] kind = "hash" -> [blocks EXCEPT ![n].hash = ForgedHash]
           [] kind = "previousHash" -> [blocks EXCEPT ![n].previousHash = ForgedHash]
           [] kind = "merkleRoot" -> [blocks EXCEPT ![n].merkleRoot = ForgedHash]
           [] kind = "delete" -> [m \in DOMAIN blocks \ {n} |-> blocks[m]]
    /\ tampers' = tampers \cup {<<n, kind>>}
    /\ UNCHANGED <<merkleVars, appVars, impl, now, state, stateFile, transactions, receipts, appended,
                   outcome, torn>>

TamperStep == \E n \in DOMAIN blocks, kind \in TamperKinds : Tamper(n, kind)

\* Mutant: the head in memory is reset before the exception leaves the call.
addTransactionThrows_resetHead ==
    /\ ~blockExists(state.blockHeight)
    /\ outcome' = "TypeError"
    /\ state' = [state EXCEPT !.latestBlockHash = ZeroHash]
    /\ UNCHANGED <<merkleVars, appVars, impl, now, stateFile, blocks, transactions, receipts,
                   appended, tampers, torn>>

\* addTransaction when the file of the latest block is gone: getLatestBlock()
\* returns null and reading latestBlock.number throws before anything is written.
addTransactionThrows ==
    /\ ~blockExists(state.blockHeight)
    /\ outcome' = "TypeError"
    /\ UNCHANGED <<merkleVars, appVars, impl, now, state, stateFile, blocks, transactions, receipts,
                   appended, tampers, torn>>

\* The appends of this specification all fall into one millisecond: what the
\* clock does between calls is explored by Spec.
TamperAppendStep ==
    /\ Len(receipts) < MaxTamperAppends
    /\ \E type \in TxTypes, data \in Payloads : addTransaction(type, data, 0, 0)

NextTamper == TamperAppendStep \/ addTransactionThrows \/ TamperStep

SpecTamper == Init /\ [][NextTamper]_vars

-----------------------------------------------------------------------------
(* Read and audit calls on a store that may have been modified *)

\* The methods that only read; the class of server.js has no getTransaction.
QueryOps == {"validateChain", "getStats", "getBlock", "getTransaction",
             "getRecentTransactions"}

\* Mutant: validateChain takes the head back to the genesis block when it
\* finds an error.
Query_selfHeal(op) ==
    /\ op = "getTransaction" => impl = "module"
    /\ outcome' = op
    /\ state' = IF op = "validateChain" /\ ~Validate.valid
                THEN [state EXCEPT !.blockHeight = 0] ELSE state
    /\ UNCHANGED <<merkleVars, appVars, impl, now, stateFile, blocks, transactions, receipts, appended,
                   tampers, torn>>

\* One call of a reading method: it returns what the operators above compute
\* and assigns no field and writes no file.
Query(op) ==
    /\ op = "getTransaction" => impl = "module"
    /\ outcome' = op
    /\ UNCHANGED <<merkleVars, appVars, impl, now, state, stateFile, blocks, transactions, receipts,
                   appended, tampers, torn>>

QueryStep == \E op \in QueryOps : Query(op)

NextAudit == TamperAppendStep \/ addTransactionThrows \/ TamperStep \/ QueryStep

SpecAudit == Init /\ [][NextAudit]_vars

-----------------------------------------------------------------------------
(* calculateMerkleRoot on transaction lists of any length *)

\* Transaction objects as addTransaction builds them.
SampleTxs ==
    {IF impl = "module" THEN buildTransaction(type, data, toISOString(n), n)
     ELSE srv_buildTransaction(type, data, toISOString(n), n, n) :
        type \in TxTypes, data \in Payloads, n \in 0..1}

InitMerkle ==
    /\ InitStore
    /\ InitDatabase
    /\ merkleInput \in UNION {[1..n -> SampleTxs] : n \in 1..MaxTxs}
    /\ merkleOutput = NoRoot

\* calculateMerkleRoot(merkleInput) is called.
CallMerkleRoot ==
    /\ merkleOutput = NoRoot
    /\ merkleOutput' = MerkleRootOf(merkleInput)
    /\ UNCHANGED <<appVars, impl, now, state, stateFile, blocks, transactions,
                   receipts, appended, outcome, tampers, torn, merkleInput>>

\* The transactions at positions i and j change places and the root of the
\* reordered list is computed.
SwapAndCall(i, j) ==
    /\ merkleOutput # NoRoot
    /\ merkleInput' = [merkleInput EXCEPT ![i] = merkleInput[j], ![j] = merkleInput[i]]
    /\ merkleOutput' = MerkleRootOf(merkleInput')
    /\ UNCHANGED <<appVars, impl, now, state, stateFile, blocks, transactions,
                   receipts, appended, outcome, tampers, torn>>

SwapStep == \E i, j \in 1..Len(merkleInput) : i < j /\ SwapAndCall(i, j)

NextMerkle == CallMerkleRoot \/ SwapStep

SpecMerkle == InitMerkle /\ [][NextMerkle]_vars

-----------------------------------------------------------------------------
(* The engine with failing storage writes and restarts *)

\* The write of addTransaction that throws: the block file, the transaction
\* file or state.json.
FailStages == {"block", "tx", "state"}

\* addTransaction when fs.writeFileSync throws at the given write.  The writes
\* before it are done, the statements after it are not run, and the exception
\* leaves addTransaction: no receipt is returned.
addTransactionFails(type, data, stage) ==
    LET timestamp == toISOString(now)
        tx == IF impl = "module" THEN buildTransaction(type, data, timestamp, now)
              ELSE srv_buildTransaction(type, data, timestamp, now, now)
        block == newBlock(getLatestBlock, timestamp, tx)
    IN /\ blockExists(state.blockHeight)
       /\ state.blockHeight < MaxFaultHeight
       /\ blocks' = IF stage = "block" THEN blocks ELSE saveBlockFiles(blocks, block)
       /\ transactions' = IF stage = "state" THEN saveBlockTxs(transactions, block)
                          ELSE transactions
       /\ state' = IF stage = "state" THEN advanceState(state, block) ELSE state
       /\ outcome' = "StorageError"
       /\ UNCHANGED <<merkleVars, appVars, impl, now, stateFile, receipts, appended, tampers, torn>>

FailStep == \E type \in TxTypes, data \in Payloads, stage \in FailStages :
    addTransactionFails(type, data, stage)

\* Mutant: the constructor creates the genesis block on every start.
Restart_createGenesis ==
    LET g == IF impl = "module" THEN createGenesisBlock(toISOString(now))
             ELSE srv_createGenesisBlock(toISOString(now), now)
    IN /\ StatePath \notin torn
       /\ blocks' = saveBlockFiles(blocks, g)
       /\ transactions' = saveBlockTxs(transactions, g)
       /\ state' = initialState(g)
       /\ stateFile' = initialState(g)
       /\ outcome' = "restarted"
       /\ UNCHANGED <<merkleVars, appVars, impl, now, receipts, appended, tampers, torn>>

\* Mutant: the head held in memory outlives the process.
Restart_keepMemory ==
    /\ StatePath \notin torn
    /\ state' = state
    /\ outcome' = "restarted"
    /\ UNCHANGED <<merkleVars, appVars, impl, now, stateFile, blocks, transactions, receipts, appended,
                   tampers, torn>>

\* The process is started again on the same directory: initialize() finds
\* state.json and loads it (JSON.parse throws on a file written in part).
Restart ==
    /\ StatePath \notin torn
    /\ state' = stateFile
    /\ outcome' = "restarted"
    /\ UNCHANGED <<merkleVars, appVars, impl, now, stateFile, blocks, transactions, receipts, appended,
                   tampers, torn>>

\* The appends of the specifications with faults all fall into one millisecond;
\* a process that died makes no call before it is started again.
FaultAppendStep ==
    /\ outcome # "crashed"
    /\ state.blockHeight < MaxFaultHeight
    /\ \E type \in TxTypes, data \in Payloads : addTransaction(type, data, 0, 0)

NextFail == FaultAppendStep \/ FailStep \/ Restart

SpecFail == Init /\ [][NextFail]_vars

-----------------------------------------------------------------------------
(* The process dies inside addTransaction *)

\* Where the process dies: between two writes ...
CrashPoints == {"afterBlockFile", "afterSaveBlock", "beforeSaveState"}
\* ... or inside fs.writeFileSync, which opens the final path for writing
\* (truncating it) and then writes the content: the file is left with a part of
\* its content.
TornPoints == {"inBlockFile", "inTxFile", "inStateFile"}

crashedInAddTransaction(type, data, point) ==
    LET timestamp == toISOString(now)
        tx == IF impl = "module" THEN buildTransaction(type, data, timestamp, now)
              ELSE srv_buildTransaction(type, data, timestamp, now, now)
        block == newBlock(getLatestBlock, timestamp, tx)
        txsWritten == point \in {"afterSaveBlock", "beforeSaveState", "inTxFile",
                                 "inStateFile"}
        whole == (IF point = "inBlockFile" THEN {} ELSE {getBlockPath(block.number)})
                 \cup (IF txsWritten /\ point # "inTxFile" THEN txPaths(block) ELSE {})
        partial == CASE point = "inBlockFile" -> {getBlockPath(block.number)}
                     [] point = "inTxFile" -> txPaths(block)
                     [] point = "inStateFile" -> {StatePath}
                     [] OTHER -> {}
    IN /\ outcome # "crashed"
       /\ blockExists(state.blockHeight)
       /\ state.blockHeight < MaxFaultHeight
       /\ Cardinality(torn \cup partial) <= MaxCrashes
       /\ blocks' = saveBlockFiles(blocks, block)
       /\ transactions' = IF txsWritten THEN saveBlockTxs(transactions, block)
                          ELSE transactions
       /\ stateFile' = IF point = "inStateFile" THEN advanceState(state, block)
                       ELSE stateFile
       /\ state' = IF point \in {"beforeSaveState", "inStateFile"}
                   THEN advanceState(state, block) ELSE state
       /\ torn' = (torn \ whole) \cup partial
       /\ outcome' = "crashed"
       /\ UNCHANGED <<merkleVars, appVars, impl, now, receipts, appended, tampers>>

CrashStep == \E type \in TxTypes, data \in Payloads, point \in CrashPoints :
    crashedInAddTransaction(type, data, point)

TornStep == \E type \in TxTypes, data \in Payloads, point \in TornPoints :
    crashedInAddTransaction(type, data, point)

NextCrash == FaultAppendStep \/ CrashStep \/ Restart

SpecCrash == Init /\ [][NextCrash]_vars

NextTorn == FaultAppendStep \/ CrashStep \/ TornStep \/ Restart

SpecTorn == Init /\ [][NextTorn]_vars

-----------------------------------------------------------------------------
(* Two engine instances on one data directory *)

\* addTransaction of a second instance, constructed on the same dataDir just
\* before the call: its this.state is what initialize() read from state.json.
\* Its receipt is recorded with those of the first instance.
peerAddTransaction(type, data) ==
    LET peerState == stateFile
        timestamp == toISOString(now)
        tx == IF impl = "module" THEN buildTransaction(type, data, timestamp, now)
              ELSE srv_buildTransaction(type, data, timestamp, now, now)
        block == newBlock(getBlock(peerState.blockHeight), timestamp, tx)
    IN /\ Len(receipts) < MaxPeerAppends
       /\ blockExists(peerState.blockHeight)
       /\ blocks' = saveBlockFiles(blocks, block)
       /\ transactions' = saveBlockTxs(transactions, block)
       /\ stateFile' = advanceState(peerState, block)
       /\ receipts' = Append(receipts, makeReceipt(tx, block, timestamp))
       /\ appended' = Append(appended, tx)
       /\ outcome' = "peerReceipt"
       /\ UNCHANGED <<merkleVars, appVars, impl, now, state, tampers, torn>>

PeerAppendStep == \E type \in TxTypes, data \in Payloads : peerAddTransaction(type, data)

OwnAppendStep ==
    /\ Len(receipts) < MaxPeerAppends
    /\ \E type \in TxTypes, data \in Payloads : addTransaction(type, data, 0, 0)

NextPeers == OwnAppendStep \/ PeerAppendStep \/ Tick

SpecPeers == Init /\ [][NextPeers]_vars

-----------------------------------------------------------------------------
(* The HTTP routes of server.js over JSONDatabase and the chain *)

\* The NIKs of the requests: the two seeded patients and an unknown one.
Niks == {SeedNiks[1], SeedNiks[2], "3201234567890003"}

\* generateOTP(): two of the six-digit codes.
Codes == {"100000", "999999"}

\* The OTP lifetime of /api/consent/request in milliseconds: 5 * 60 * 1000.
OtpLifetime == 300000

\* findPatientByNIK: the index of the first patient with this NIK, 0 for
\* undefined.
findPatientByNIK(nik) ==
    IF \E i \in 1..Len(patients) : patients[i].nik = nik
    THEN CHOOSE i \in 1..Len(patients) :
            /\ patients[i].nik = nik
            /\ \A j \in 1..(i - 1) : patients[j].nik # nik
    ELSE 0

\* generateDID(nik); the digest is cut to 40 hex digits in the code.
generateDID(nik) == "did:medchain:" \o sha256(nik \o NumToStr(now))

\* generateId(prefix): the clock and four random bytes, which are taken never
\* to repeat: the n-th identifier of a kind carries n.
generateId(prefix, n) == prefix \o NumToStr(now) \o "-" \o NumToStr(n)

\* The identifiers a request can name: those that were issued and one that
\* never was.
NamedRequestIds == {otpCodes[k].requestId : k \in 1..Len(otpCodes)} \cup {"REQ-none"}
NamedConsentIds ==
    {consents[k].consentId : k \in 1..Len(consents)} \cup {"CONSENT-none"}

\* The fields of the request bodies that the routes copy into their records
\* without reading them.
ConsentBody == ",hospitalId:1,dataTypes:lab,purpose:care"
EmergencyBody == ",staffId:DR001,reason:unconscious"

\* blockchain.addTransaction of the server, within a route.
routeTx(type, data) == srv_buildTransaction(type, data, toISOString(now), now, now)

routeAppend(type, data) ==
    /\ blockExists(state.blockHeight)
    /\ state.blockHeight < MaxRouteAppends
    /\ commitTransaction(routeTx(type, data), toISOString(now))

\* blockchain.addTransaction throwing at its first write: the route's catch
\* answers 500.
routeAppendThrows ==
    UNCHANGED <<blocks, transactions, state, stateFile, receipts, appended, torn>>

LedgerUntouched ==
    UNCHANGED <<blocks, transactions, state, stateFile, receipts, appended, torn>>

\* POST /api/patients/register
\* The data of a DID_REGISTRATION transaction. nikHash is the first 16 hex
\* digits of the digest, held here as the digest: distinct NIKs keep distinct
\* prefixes.
registrationData(nik, did, t) ==
    "{nikHash:" \o sha256(nik) \o ",did:" \o did \o ",timestamp:"
    \o toISOString(t) \o "}"

Register(nik, throws) ==
    LET patient == findPatientByNIK(nik)
        did == generateDID(nik)
        data == registrationData(nik, did, now)
    IN /\ IF patient # 0 /\ patients[patient].did # NoDid
          THEN /\ outcome' = "register:400"
               /\ LedgerUntouched
               /\ UNCHANGED patients
          ELSE /\ patients' = IF patient # 0
                              THEN [patients EXCEPT ![patient].did = did]
                              ELSE Append(patients, [nik |-> nik, did |-> did])
               /\ IF throws
                  THEN routeAppendThrows /\ outcome' = "register:500"
                  ELSE routeAppend("DID_REGISTRATION", data) /\ outcome' = "register:200"
       /\ UNCHANGED <<merkleVars, impl, now, tampers, otpCodes, consents, accessLogs,
                      tempPatients, call>>

\* POST /api/consent/request
ConsentRequest(nik, otp) ==
    LET patient == findPatientByNIK(nik)
        requestId == generateId("REQ-", Len(otpCodes) + 1)
    IN /\ Len(otpCodes) < MaxOtps
       /\ IF patient = 0
          THEN outcome' = "request:404" /\ UNCHANGED otpCodes
          ELSE /\ otpCodes' = Append(otpCodes,
                     [patientId |-> patient, code |-> otp, requestId |-> requestId,
                      expiresAt |-> now + OtpLifetime, verified |-> FALSE])
               /\ outcome' = "request:200"
       /\ LedgerUntouched
       /\ UNCHANGED <<merkleVars, impl, now, tampers, patients, consents, accessLogs,
                      tempPatients, call>>

\* verifyOTP: the index of the record that find() returns, 0 for undefined.
\* expiresAt is held as the millisecond instant that new Date(expiresAt) reads
\* back from the stored ISO string.
findOTP(requestId, code) ==
    LET matches == {k \in 1..Len(otpCodes) :
                      /\ otpCodes[k].requestId = requestId
                      /\ otpCodes[k].code = code
                      /\ ~otpCodes[k].verified
                      /\ otpCodes[k].expiresAt > now}
    IN IF matches = {} THEN 0
       ELSE CHOOSE k \in matches : \A m \in matches : k <= m

\* Mutant: verifyOTP does not look at the verified flag.
ConsentVerify_reusable(requestId, otp, nik, throws) ==
    LET matches == {k \in 1..Len(otpCodes) :
                      /\ otpCodes[k].requestId = requestId
                      /\ otpCodes[k].code = otp
                      /\ otpCodes[k].expiresAt > now}
    IN /\ call' = [requestId |-> requestId, otp |-> otp]
       /\ outcome' = IF matches = {} THEN "verify:400" ELSE "verify:200"
       /\ otpCodes' = [k \in 1..Len(otpCodes) |->
                         IF k \in matches THEN [otpCodes[k] EXCEPT !.verified = TRUE]
                         ELSE otpCodes[k]]
       /\ LedgerUntouched
       /\ UNCHANGED <<merkleVars, impl, now, tampers, patients, consents, accessLogs,
                      tempPatients>>

\* POST /api/consent/verify
ConsentVerify(requestId, otp, nik, throws) ==
    LET found == findOTP(requestId, otp)
        patient == findPatientByNIK(nik)
        consentId == generateId("CONSENT-", Len(consents) + 1)
        data == "{consentId:" \o consentId \o ",patientDid:"
                \o patients[patient].did \o ConsentBody \o "}"
    IN /\ call' = [requestId |-> requestId, otp |-> otp]
       /\ IF found = 0
          THEN /\ outcome' = "verify:400"
               /\ LedgerUntouched
               /\ UNCHANGED <<otpCodes, consents>>
          ELSE /\ otpCodes' = [otpCodes EXCEPT ![found].verified = TRUE]
               /\ IF patient = 0 \/ throws
                  THEN /\ outcome' = "verify:500"
                       /\ routeAppendThrows
                       /\ UNCHANGED consents
                  ELSE /\ routeAppend("CONSENT_GRANTED", data)
                       /\ consents' = Append(consents,
                             [consentId |-> consentId, patientId |-> patient,
                              status |-> "active", revokedAt |-> "",
                              txHash |-> routeTx("CONSENT_GRANTED", data).hash])
                       /\ outcome' = "verify:200"
       /\ UNCHANGED <<merkleVars, impl, now, tampers, patients, accessLogs,
                      tempPatients>>

\* getPatientConsents: the indexes of the records returned.
getPatientConsents(patientId) ==
    {k \in 1..Len(consents) :
        consents[k].patientId = patientId /\ consents[k].status = "active"}

\* revokeConsent: the index of the record that find() returns, 0 for undefined.
findConsent(consentId) ==
    IF \E k \in 1..Len(consents) : consents[k].consentId = consentId
    THEN CHOOSE k \in 1..Len(consents) :
            /\ consents[k].consentId = consentId
            /\ \A j \in 1..(k - 1) : consents[j].consentId # consentId
    ELSE 0

\* POST /api/consent/:id/revoke
Revoke(id, throws) ==
    LET found == findConsent(id)
    IN /\ consents' = IF found = 0 THEN consents
                      ELSE [consents EXCEPT ![found].status = "revoked",
                                            ![found].revokedAt = toISOString(now)]
       /\ IF throws
          THEN routeAppendThrows /\ outcome' = "revoke:500"
          ELSE /\ routeAppend("CONSENT_REVOKED", "{consentId:" \o id \o "}")
               /\ outcome' = "revoke:200"
       /\ UNCHANGED <<merkleVars, impl, now, tampers, patients, otpCodes, accessLogs,
                      tempPatients, call>>

\* Mutant: the access is logged before the transaction is appended.
EmergencyAccess_logFirst(identificationMethod, nik, throws) ==
    LET patient == IF identificationMethod = "nik" THEN findPatientByNIK(nik) ELSE 0
        logId == generateId("EMRG-", Len(accessLogs) + 1)
    IN /\ Len(accessLogs) < MaxRouteAppends
       /\ accessLogs' = Append(accessLogs,
             [logId |-> logId, patientId |-> patient,
              txHash |-> routeTx("EMERGENCY_ACCESS", logId).hash])
       /\ outcome' = "emergency:500"
       /\ routeAppendThrows
       /\ UNCHANGED <<merkleVars, impl, now, tampers, patients, otpCodes, consents,
                      tempPatients, call>>

\* POST /api/emergency/access
EmergencyAccess(identificationMethod, nik, throws) ==
    LET patient == IF identificationMethod = "nik" THEN findPatientByNIK(nik) ELSE 0
        tempId == IF patient = 0 THEN generateId("TEMP-", Len(tempPatients) + 1)
                  ELSE "null"
        logId == generateId("EMRG-", Len(accessLogs) + 1)
        data == "{logId:" \o logId \o ",patientId:"
                \o (IF patient = 0 THEN "null" ELSE NumToStr(patient))
                \o ",tempId:" \o tempId \o EmergencyBody
                \o ",identificationMethod:" \o identificationMethod
                \o ",accessedAt:" \o toISOString(now) \o "}"
    IN /\ Len(tempPatients) < MaxRouteAppends
       /\ tempPatients' = IF patient = 0 THEN Append(tempPatients, tempId)
                          ELSE tempPatients
       /\ IF throws
          THEN /\ routeAppendThrows
               /\ outcome' = "emergency:500"
               /\ UNCHANGED accessLogs
          ELSE /\ routeAppend("EMERGENCY_ACCESS", data)
               /\ accessLogs' = Append(accessLogs,
                     [logId |-> logId, patientId |-> patient,
                      txHash |-> routeTx("EMERGENCY_ACCESS", data).hash])
               /\ outcome' = "emergency:200"
       /\ UNCHANGED <<merkleVars, impl, now, tampers, patients, otpCodes, consents,
                      call>>

\* Five minutes pass between two requests.
LifetimePasses ==
    /\ now < MaxOtpLifetimes * OtpLifetime
    /\ now' = now + OtpLifetime
    /\ UNCHANGED <<merkleVars, appVars, impl, state, stateFile, blocks, transactions,
                   receipts, appended, outcome, tampers, torn>>

RegisterStep(throwing) == \E nik \in Niks, throws \in throwing : Register(nik, throws)

ConsentRequestStep == \E nik \in Niks : ConsentRequest(nik, "100000")

ConsentVerifyStep(throwing) ==
    \E requestId \in NamedRequestIds, otp \in Codes :
        IF findOTP(requestId, otp) = 0
        THEN ConsentVerify(requestId, otp, SeedNiks[1], FALSE)
        ELSE \E nik \in Niks, throws \in throwing :
                ConsentVerify(requestId, otp, nik, throws)

RevokeStep(throwing) ==
    \E id \in NamedConsentIds, throws \in throwing :
        Revoke(id, throws)

\* The bodies of the emergency requests: a known NIK, or no identification.
EmergencyInputs ==
    {<<"nik", SeedNiks[1]>>, <<"unknown", "">>}

EmergencyStep(throwing) ==
    \E input \in EmergencyInputs, throws \in throwing :
        EmergencyAccess(input[1], input[2], throws)

\* The server: the chain is the class of server.js, created at time 0.
InitRoutes == Init /\ impl = "server" /\ now = 0

NextRoutes ==
    \/ RegisterStep({FALSE})
    \/ ConsentRequestStep
    \/ ConsentVerifyStep({FALSE})
    \/ RevokeStep({FALSE})
    \/ EmergencyStep({FALSE})
    \/ LifetimePasses

SpecRoutes == InitRoutes /\ [][NextRoutes]_vars

\* The consent requests alone: an OTP is issued, verified, or expires.
NextOtp ==
    \/ ConsentRequestStep
    \/ ConsentVerifyStep({FALSE})
    \/ LifetimePasses

SpecOtp == InitRoutes /\ [][NextOtp]_vars

\* The requests that write a record with a txHash, blockchain.addTransaction
\* failing in some of them.
NextRecords ==
    \/ ConsentRequestStep
    \/ ConsentVerifyStep(BOOLEAN)
    \/ EmergencyStep(BOOLEAN)

SpecRecords == InitRoutes /\ [][NextRecords]_vars

\* Registration alone, blockchain.addTransaction failing in some requests.
NextRegister ==
    \/ RegisterStep(BOOLEAN)
    \/ LifetimePasses

SpecRegister == InitRoutes /\ [][NextRegister]_vars


-----------------------------------------------------------------------------
(* Properties of the engine alone (Spec) *)

\* C1: after initialization and k successful addTransaction calls,
\* getStats().totalBlocks = head blockHeight + 1 = k + 1.
C1_TotalBlocks ==
    /\ StatsTotalBlocks = state.blockHeight + 1
    /\ state.blockHeight + 1 = Len(receipts) + 1
    /\ stateFile.blockHeight = state.blockHeight

C1_Witness == Len(receipts) = 3 /\ StatsTotalBlocks = 4

\* C2: every persisted block n > 0 links to the stored hash of block n - 1,
\* and validateChain reports no chain-break error.
C2_ChainLinked ==
    /\ \A n \in DOMAIN blocks :
          n > 0 => /\ blockExists(n - 1)
                   /\ getBlock(n).previousHash = getBlock(n - 1).hash
    /\ \A k \in 1..Len(Validate.errors) : Validate.errors[k].error # "Chain broken"

C2_Witness ==
    /\ blockExists(2)
    /\ getBlock(2).previousHash = getBlock(1).hash
    /\ getBlock(1).previousHash = getBlock(0).hash

\* C3: the stored hash of every persisted block is the digest of its own
\* stored number, timestamp, previousHash, merkleRoot and nonce.
C3_BlockHash ==
    \A n \in DOMAIN blocks :
        getBlock(n).hash =
            sha256(NumToStr(getBlock(n).number) \o "|" \o getBlock(n).timestamp
                   \o "|" \o getBlock(n).previousHash \o "|"
                   \o getBlock(n).merkleRoot \o "|" \o NumToStr(getBlock(n).nonce))

C3_Witness ==
    /\ blockExists(2)
    /\ getBlock(2).hash = calculateBlockHash(getBlock(2))
    /\ getBlock(2).merkleRoot # ""

\* C4: the stored merkle root of every persisted block is the merkle root of
\* its transactions as they are stored, hash fields included.
C4_MerkleRoot ==
    \A n \in DOMAIN blocks :
        getBlock(n).merkleRoot = MerkleRootOf(getBlock(n).transactions)

C4_Witness ==
    /\ blockExists(1)
    /\ getBlock(1).merkleRoot = sha256(stringifyTx(getBlock(1).transactions[1], TRUE))
    /\ getBlock(0).merkleRoot = sha256(stringifyTx(getBlock(0).transactions[1], TRUE))

C9_Receipt ==
    outcome = "receipt" =>
        LET r == receipts[Len(receipts)]
        IN /\ blockExists(r.blockNumber)
           /\ getBlock(r.blockNumber).hash = r.blockHash
           /\ Len(getBlock(r.blockNumber).transactions) = 1
           /\ getBlock(r.blockNumber).transactions[1].hash = r.txHash
           /\ getBlock(r.blockNumber).transactions[1].timestamp = r.timestamp
           /\ state.blockHeight = r.blockNumber
           /\ state.latestBlockHash = r.blockHash
           /\ stateFile = state

C9_Witness ==
    /\ outcome = "receipt"
    /\ Len(receipts) = 2
    /\ receipts[2].blockNumber = 2
    /\ getBlock(2).hash = receipts[2].blockHash

\* The transaction behind the k-th entry (k = 1 is the most recent) of the
\* chain of the appends so far, and the number of the block holding it.
NthRecentNumber(k) == Len(appended) - k + 1

NthRecentTx(k) ==
    IF NthRecentNumber(k) = 0 THEN getBlock(0).transactions[1]
    ELSE appended[NthRecentNumber(k)]

\* C10: getRecentTransactions(limit) returns min(limit, total transactions)
\* entries, the most recently appended first, each with the number of the
\* block that holds it.
C10_Recent ==
    \A limit \in 0..MaxLimit :
        LET r == RecentTransactions(limit)
            total == state.totalTransactions
        IN /\ Len(r) = (IF limit < total THEN limit ELSE total)
           /\ \A k \in 1..Len(r) :
                 /\ r[k].blockNumber = NthRecentNumber(k)
                 /\ r[k].hash = NthRecentTx(k).hash
                 /\ r[k].type = NthRecentTx(k).type
                 /\ r[k].data = NthRecentTx(k).data
                 /\ r[k].timestamp = NthRecentTx(k).timestamp

C10_Witness ==
    /\ Len(appended) = 5
    /\ Len(RecentTransactions(2)) = 2
    /\ RecentTransactions(2)[1].hash = appended[5].hash
    /\ RecentTransactions(2)[2].hash = appended[4].hash
    /\ RecentTransactions(2)[1].blockNumber = 5
    /\ appended[5].type # appended[4].type

-----------------------------------------------------------------------------
(* Properties of validateChain on modified block files (SpecTamper) *)

\* The error kinds of the two classes, by the check that produces them.
MissingKinds == {"Block file missing", "Missing block"}
HashKinds == {"Hash mismatch", "Tampered block"}
MerkleKinds == {"Merkle root mismatch"}
LinkKinds == {"Chain broken"}

\* The number of entries of the report for block i with a kind among kinds.
ErrorCount(i, kinds) ==
    Cardinality({k \in 1..Len(Validate.errors) :
                    /\ Validate.errors[k].block = i
                    /\ Validate.errors[k].error \in kinds})

PayloadTamperDetected ==
    \A n \in 0..state.blockHeight :
        tampers = {<<n, "payload">>} =>
            /\ ~Validate.valid
            /\ ErrorCount(n, HashKinds \cup MerkleKinds) >= 1
            /\ \A k \in 1..Len(Validate.errors) :
                  /\ Validate.errors[k].block = n
                  /\ Validate.errors[k].error \in HashKinds \cup MerkleKinds

\* C6: when the payload of one persisted block n was changed, validateChain
\* returns valid = false and reports a hash or merkle mismatch for block n
\* and for no other block.
C6_TamperDetected == PayloadTamperDetected

\* C6, for the class of blockchain.js alone.
C6_StandaloneDetects == impl = "module" => PayloadTamperDetected

C6_Witness ==
    /\ impl = "module"
    /\ tampers = {<<1, "payload">>}
    /\ state.blockHeight = 2
    /\ Validate.errors = <<errorEntry(1, "Merkle root mismatch")>>

\* Block i passes the four checks of a validation.
BlockSound(i) ==
    /\ blockExists(i)
    /\ getBlock(i).hash = calculateBlockHash(getBlock(i))
    /\ getBlock(i).merkleRoot = MerkleRootOf(getBlock(i).transactions)
    /\ i > 0 => /\ blockExists(i - 1)
                /\ getBlock(i).previousHash = getBlock(i - 1).hash

ValidIffSound ==
    /\ Validate.valid <=> (Len(Validate.errors) = 0)
    /\ (Len(Validate.errors) = 0) <=> \A i \in 0..state.blockHeight : BlockSound(i)

\* C7: validateChain returns valid = true iff its error sequence is empty, iff
\* every block 0..blockHeight exists, has the hash and the merkle root that
\* are recomputed from it, and (above 0) links to the stored hash of its
\* predecessor.
C7_ValidIffSound == ValidIffSound

\* C7, for the class of blockchain.js alone.
C7_StandaloneValidIffSound == impl = "module" => ValidIffSound

C7_Witness ==
    /\ impl = "module"
    /\ state.blockHeight = 2
    /\ ~Validate.valid
    /\ ~BlockSound(0)
    /\ BlockSound(1)

FullAudit ==
    /\ \A j, k \in 1..Len(Validate.errors) :
          j < k => Validate.errors[j].block <= Validate.errors[k].block
    /\ \A i \in 0..state.blockHeight :
          /\ ErrorCount(i, MissingKinds) = (IF blockExists(i) THEN 0 ELSE 1)
          /\ blockExists(i) =>
                /\ ErrorCount(i, HashKinds) =
                      (IF getBlock(i).hash = calculateBlockHash(getBlock(i))
                       THEN 0 ELSE 1)
                /\ ErrorCount(i, MerkleKinds) =
                      (IF getBlock(i).merkleRoot
                            = MerkleRootOf(getBlock(i).transactions)
                       THEN 0 ELSE 1)
                /\ (i > 0 /\ blockExists(i - 1)) =>
                      ErrorCount(i, LinkKinds) =
                          (IF getBlock(i).previousHash = getBlock(i - 1).hash
                           THEN 0 ELSE 1)

\* C8: validateChain does not stop at the first error: every defective block
\* is reported, in ascending order of block number, with one entry per failed
\* check.
C8_FullAudit == FullAudit

\* C8, for the class of blockchain.js alone.
C8_StandaloneFullAudit == impl = "module" => FullAudit

C8_Witness ==
    /\ impl = "module"
    /\ Len(Validate.errors) = 3
    /\ Validate.errors[1].block = 1
    /\ Validate.errors[2].block = 1
    /\ Validate.errors[3].block = 2

\* A digest that no transaction carries.
AbsentHash == sha256("absent")

TxFoundIn(n, i) ==
    LET t == blocks[n].transactions[i]
        found == getTransaction(t.hash)
    IN /\ found # Null
       /\ found.tx = t
       /\ found.blockNumber = n
       /\ found.blockHash = blocks[n].hash

\* C18: getTransaction(t.hash) returns, for every transaction t of every block
\* b up to the head, the fields of t with the number and the hash of b, and
\* not-found for a hash that was never persisted.
C18_Lookup ==
    /\ \A n \in 0..state.blockHeight :
         \A i \in 1..Len(blocks[n].transactions) : TxFoundIn(n, i)
    /\ getTransaction(AbsentHash) = Null

\* The same for blockchain.js alone, whose records carry the block hash.
C18_ModuleLookup == impl = "module" => C18_Lookup

C18_Witness ==
    /\ impl = "module"
    /\ Len(receipts) = 2
    /\ receipts[1].txHash = receipts[2].txHash
    /\ getTransaction(receipts[1].txHash).blockNumber = 2

\* C19: any two addTransaction calls of one process get distinct nonces and
\* distinct transaction hashes, also with the same type and payload in the
\* same millisecond, so that no transaction record is overwritten.
C19_DistinctNonces ==
    \A i, j \in 1..Len(appended) :
        i < j => /\ appended[i].nonce # appended[j].nonce
                 /\ appended[i].hash # appended[j].hash

C19_Witness ==
    /\ Len(appended) = 2
    /\ appended[1] = appended[2]
    /\ Cardinality(DOMAIN transactions) = 2

RECURSIVE CountTxs(_)
\* The number of transactions held by blocks 0..n.
CountTxs(n) ==
    IF n < 0 THEN 0 ELSE Len(blocks[n].transactions) + CountTxs(n - 1)

\* C21: every block 0..blockHeight holds exactly one transaction, and
\* totalTransactions is the number of transactions of these blocks, which is
\* blockHeight + 1.
C21_OneTxPerBlock ==
    /\ \A n \in 0..state.blockHeight : blockExists(n) /\ Len(blocks[n].transactions) = 1
    /\ state.totalTransactions = CountTxs(state.blockHeight)
    /\ state.totalTransactions = state.blockHeight + 1
    /\ stateFile.totalTransactions = stateFile.blockHeight + 1

C21_Witness ==
    /\ state.blockHeight = 3
    /\ state.totalTransactions = 4
    /\ CountTxs(3) = 4

\* C23: after the first run of the constructor the head state is blockHeight 0,
\* latestBlockHash the hash of the stored genesis block, totalTransactions 1,
\* genesisTimestamp the timestamp of the genesis block; state.json never holds
\* a head with the all-zero latestBlockHash or a height below 0.
C23_FirstRunHead ==
    /\ outcome = "none" =>
         /\ state = stateFile
         /\ state.blockHeight = 0
         /\ state.latestBlockHash = getBlock(0).hash
         /\ state.totalTransactions = 1
         /\ state.genesisTimestamp = getBlock(0).timestamp
    /\ stateFile.latestBlockHash # ZeroHash
    /\ stateFile.blockHeight >= 0

C23_Witness ==
    /\ outcome = "none"
    /\ Len(receipts) = 0
    /\ now = 1
    /\ stateFile.latestBlockHash = getBlock(0).hash
    /\ getBlock(0).previousHash = ZeroHash

\* C24: the head state points at the tail: the block at blockHeight exists,
\* its hash is latestBlockHash, and no block has a greater number.
C24_HeadAtTail ==
    /\ blockExists(state.blockHeight)
    /\ getLatestBlock.hash = state.latestBlockHash
    /\ getLatestBlock.number = state.blockHeight
    /\ \A n \in DOMAIN blocks : n <= state.blockHeight
    /\ stateFile = state

C24_Witness ==
    /\ state.blockHeight = 2
    /\ DOMAIN blocks = 0..2
    /\ getLatestBlock.hash = state.latestBlockHash
    /\ outcome = "receipt"

\* The digest of the encoding of the type, data, timestamp and nonce stored in
\* a transaction object.
StoredFieldsHash(tx) == sha256(stringifyTx(tx, FALSE))

TxHashesSound ==
    /\ \A n \in DOMAIN blocks :
         \A i \in 1..Len(blocks[n].transactions) :
            blocks[n].transactions[i].hash = StoredFieldsHash(blocks[n].transactions[i])
    /\ \A h \in DOMAIN transactions :
         transactions[h].tx.hash = StoredFieldsHash(transactions[h].tx)

\* C25: the hash of every persisted transaction, the GENESIS transaction
\* included, is the digest of the encoding of the type, data, timestamp and
\* nonce stored in the same record.
C25_TxHash == TxHashesSound

\* The transactions written by blockchain.js carry the digest of their fields.
C25_ModuleTxHash == impl = "module" => TxHashesSound

C25_Witness ==
    /\ impl = "server"
    /\ Len(appended) = 1
    /\ appended[1].hash # StoredFieldsHash(appended[1])
    /\ getBlock(0).transactions[1].hash # StoredFieldsHash(getBlock(0).transactions[1])

-----------------------------------------------------------------------------
(* getStats on modified block files (SpecTamper) *)

\* C11: getStats embeds the result of a validation made at call time, so a
\* block that fails a check shows as valid = false in the next getStats.
C11_StatsFresh ==
    /\ StatsValid = (IF Validate.valid THEN "true" ELSE "false")
    /\ (\E i \in 0..state.blockHeight : ~BlockSound(i)) => StatsValid = "false"

C11_Witness ==
    /\ impl = "server"
    /\ tampers = {<<1, "hash">>}
    /\ StatsValid = "false"

\* C20: every addTransaction creates the block numbered blockHeight + 1 whose
\* previousHash is latestBlockHash, both as held in the head state when the
\* call starts, also when the file of the latest block was modified or removed.
C20_LinksToHead ==
    [][/\ outcome' # "TypeError"
       /\ Len(receipts') > Len(receipts) =>
            LET created == blocks'[receipts'[Len(receipts')].blockNumber]
            IN /\ created.number = state.blockHeight + 1
               /\ created.previousHash = state.latestBlockHash]_vars

C20_Witness ==
    /\ outcome = "receipt"
    /\ tampers = {<<0, "hash">>}
    /\ state.blockHeight = 1
    /\ blocks[1].previousHash = ForgedHash

\* An addTransaction that returned a receipt left the stored blocks as they
\* were, and validateChain reports afterwards every error it reported before.
AppendKeepsFindings ==
    Len(receipts') > Len(receipts) =>
        /\ \A n \in DOMAIN blocks : n \in DOMAIN blocks' /\ blocks'[n] = blocks[n]
        /\ \A k \in 1..Len(Validate.errors) :
              /\ k <= Len(Validate'.errors)
              /\ Validate'.errors[k] = Validate.errors[k]
        /\ ~Validate.valid => ~Validate'.valid

\* C26: on a store whose blocks were tampered with, addTransaction raises no
\* error and repairs nothing: it completes with a receipt, leaves the stored
\* blocks unchanged, and validateChain still reports the tampering afterwards.
C26_AppendNoRepair ==
    [][outcome' # "TypeError" /\ AppendKeepsFindings]_vars

\* What holds of the calls that do return a receipt.
C26_ReceiptNoRepair == [][AppendKeepsFindings]_vars

C26_Witness ==
    /\ outcome = "TypeError"
    /\ tampers = {<<0, "delete">>}
    /\ state.blockHeight = 0
    /\ Len(receipts) = 0

\* The fields of the two classes are identified by renaming (prevHash as
\* previousHash, latestHash as latestBlockHash, totalTx as totalTransactions), so
\* that either validateChain can be run on the store of the other class.
C30_SameVerdict == validateChain.valid = srv_validateChain.valid

\* On an empty directory and with the same clock, both constructors arrive at
\* the same latestBlockHash.
C30_SameGenesisHash ==
    Len(receipts) = 0 =>
        createGenesisBlock(state.genesisTimestamp).hash
            = srv_createGenesisBlock(state.genesisTimestamp, now).hash

\* C30: the two classes are equivalent up to field renaming: after the same
\* appends and the same tampering both validateChain return the same valid,
\* and both getStats the same totalBlocks, totalTransactions and
\* latestBlockHash.
C30_Equivalent ==
    /\ C30_SameVerdict
    /\ C30_SameGenesisHash
    /\ getStats.totalBlocks = srv_getStats.totalBlocks
    /\ getStats.totalTransactions = srv_getStats.totalTransactions
    /\ getStats.latestBlockHash = srv_getStats.latestBlockHash

C30_Witness ==
    /\ tampers = {<<0, "payload">>}
    /\ state.blockHeight = 1
    /\ ~validateChain.valid
    /\ srv_validateChain.valid

\* C32: addTransaction called while the block file at blockHeight is missing
\* fails before it writes: no block file, transaction record or state.json is
\* created or changed, and the head state in memory is unchanged.
C32_MissingTailFailsClean ==
    [][(~blockExists(state.blockHeight) /\ tampers' = tampers) =>
          /\ outcome' = "TypeError"
          /\ blocks' = blocks
          /\ transactions' = transactions
          /\ stateFile' = stateFile
          /\ state' = state
          /\ receipts' = receipts]_vars

C32_Witness ==
    /\ outcome = "TypeError"
    /\ state.blockHeight = 1
    /\ ~blockExists(1)
    /\ blockExists(0)

\* The entries of the report of blockchain.js for block i.
EntriesFor(i) ==
    {k \in 1..Len(validateChain.errors) : validateChain.errors[k].block = i}

\* C33: for a missing block i, validateChain of blockchain.js reports exactly
\* one entry for block i, 'Block file missing', and skips the link check of
\* block i + 1, which gets no chain-break entry.
C33_MissingBlockReport ==
    impl = "module" =>
        \A i \in 0..state.blockHeight :
            ~blockExists(i) =>
                /\ Cardinality(EntriesFor(i)) = 1
                /\ \A k \in EntriesFor(i) :
                      validateChain.errors[k].error = "Block file missing"
                /\ \A k \in EntriesFor(i + 1) :
                      validateChain.errors[k].error # "Chain broken"

C33_Witness ==
    /\ impl = "module"
    /\ state.blockHeight = 2
    /\ ~blockExists(1)
    /\ blockExists(2)
    /\ EntriesFor(1) # {}
    /\ EntriesFor(2) = {}

\* C34: blocksVerified of the validateChain report is blockHeight + 1, however
\* many blocks were missing or failed a check.
C34_BlocksVerified == Validate.blocksVerified = state.blockHeight + 1

\* The report of blockchain.js always carries blockHeight + 1.
C34_ModuleBlocksVerified ==
    /\ validateChain.blocksVerified = state.blockHeight + 1
    /\ impl = "module" => C34_BlocksVerified

C34_Witness ==
    /\ impl = "server"
    /\ state.blockHeight = 2
    /\ ~Validate.valid
    /\ Validate.blocksVerified = NoValue

-----------------------------------------------------------------------------
(* Reading calls on modified block files (SpecAudit) *)

\* C27: validateChain, getStats, getBlock, getTransaction and
\* getRecentTransactions change no block file, no transaction record and
\* neither the head state in memory nor state.json, also on a broken chain.
C27_ReadsAreFrameFree ==
    [][(outcome' \in QueryOps /\ outcome' # outcome) =>
          /\ blocks' = blocks
          /\ transactions' = transactions
          /\ state' = state
          /\ stateFile' = stateFile]_vars

C27_Witness ==
    /\ outcome = "validateChain"
    /\ ~Validate.valid
    /\ ~blockExists(1)
    /\ state.blockHeight = 2

-----------------------------------------------------------------------------
(* Failing storage writes (SpecFail) *)

\* C12: an addTransaction whose storage write fails leaves the head state, in
\* memory and in state.json, as it was before the call; one that succeeds has
\* written the block, its transaction record and the head.
C12_NoPartialFailure ==
    [][/\ outcome' = "StorageError" => (state' = state /\ stateFile' = stateFile)
       /\ Len(receipts') > Len(receipts) =>
            LET r == receipts'[Len(receipts')]
            IN /\ r.blockNumber \in DOMAIN blocks'
               /\ r.txHash \in DOMAIN transactions'
               /\ stateFile' = state'
               /\ stateFile'.blockHeight = r.blockNumber]_vars

C12_Witness ==
    /\ outcome = "StorageError"
    /\ state.blockHeight = 1
    /\ stateFile.blockHeight = 0
    /\ blockExists(1)

-----------------------------------------------------------------------------
(* Two instances on one directory (SpecPeers) *)

\* C13: appends are serialized, also across two instances on one data
\* directory: no two appends write the same block number.
C13_Serialized ==
    \A i, j \in 1..Len(receipts) :
        i < j => receipts[i].blockNumber # receipts[j].blockNumber

\* The appends of one instance alone never write a block number twice.
C13_OneInstanceSerialized ==
    \A i, j \in 1..Len(receipts) :
        i < j => receipts[i].blockNumber < receipts[j].blockNumber

C13_Witness ==
    /\ outcome = "receipt"
    /\ Len(receipts) = 2
    /\ stateFile.blockHeight = 1
    /\ receipts[1].blockNumber = 1
    /\ receipts[2].blockNumber = 1

\* C17: the head is never rolled back: blockHeight and totalTransactions,
\* in memory and in state.json, grow by exactly 1 with each successful
\* addTransaction and are changed by no other step.
C17_HeadMonotone ==
    [][LET d == IF Len(receipts') > Len(receipts) THEN 1 ELSE 0
       IN /\ state'.blockHeight = state.blockHeight + d
          /\ state'.totalTransactions = state.totalTransactions + d
          /\ stateFile'.blockHeight = stateFile.blockHeight + d
          /\ stateFile'.totalTransactions = stateFile.totalTransactions + d]_vars

C17_Witness ==
    /\ outcome = "restarted"
    /\ state.blockHeight = 0
    /\ blockExists(1)
    /\ Cardinality(DOMAIN transactions) = 2

-----------------------------------------------------------------------------
(* Crashes inside addTransaction (SpecTorn, SpecCrash) *)

\* C14: the writes of block, transaction and head records are atomic for a
\* reader: no file is ever found holding a part of a record.
C14_AtomicWrites == torn = {}

C14_Witness ==
    /\ outcome = "crashed"
    /\ StatePath \in torn

\* C15: when the process dies after the file of block N+1 was written and before
\* the head was persisted, state.json still holds the head at N, and after the
\* restart blockHeight = N, latestBlockHash is the hash of block N, block N+1
\* is an orphan file and validateChain reports valid with N+1 blocks verified.
C15_CrashRecovery ==
    [][/\ outcome' = "crashed" =>
            /\ stateFile' = stateFile
            /\ stateFile.blockHeight = Len(receipts)
            /\ (stateFile.blockHeight + 1) \in DOMAIN blocks'
       /\ (outcome = "crashed" /\ outcome' = "restarted") =>
            /\ state'.blockHeight = Len(receipts)
            /\ state'.latestBlockHash = blocks'[state'.blockHeight].hash
            /\ (state'.blockHeight + 1) \in DOMAIN blocks'
            /\ Validate'.valid
            /\ Validate'.blocksVerified = state'.blockHeight + 1]_vars

C15_Witness ==
    /\ outcome = "restarted"
    /\ state.blockHeight = 1
    /\ Len(receipts) = 1
    /\ blockExists(2)
    /\ Validate.valid

\* C16: block files and transaction records are write-once: no step of the
\* engine (append, restart, restart after a crash) changes or deletes one.
C16_WriteOnce ==
    [][/\ \A n \in DOMAIN blocks : n \in DOMAIN blocks' /\ blocks'[n] = blocks[n]
       /\ \A h \in DOMAIN transactions :
            h \in DOMAIN transactions' /\ transactions'[h] = transactions[h]]_vars

C16_Witness ==
    /\ outcome = "restarted"
    /\ state.blockHeight = 0
    /\ blockExists(1)
    /\ blocks[1].transactions[1].type = "DID_REGISTRATION"

\* C22: a restart on a store that holds state.json loads that head state and
\* creates no genesis block: the block files, the transaction records and
\* state.json are unchanged, and the next addTransaction writes block
\* blockHeight + 1 linked to the stored block at blockHeight.
C22_RestartLoads ==
    [][/\ outcome' = "restarted" =>
            /\ state' = stateFile
            /\ blocks' = blocks
            /\ transactions' = transactions
            /\ stateFile' = stateFile
       /\ (outcome = "restarted" /\ Len(receipts') > Len(receipts)) =>
            LET created == blocks'[receipts'[Len(receipts')].blockNumber]
            IN /\ created.number = stateFile.blockHeight + 1
               /\ created.previousHash = blocks[stateFile.blockHeight].hash
               /\ created.previousHash = stateFile.latestBlockHash]_vars

C22_Witness ==
    /\ outcome = "restarted"
    /\ state.blockHeight = 1
    /\ state = stateFile
    /\ ~blockExists(2)

\* The record stored for hash h names a stored block that has the recorded
\* hash and holds a transaction with hash h.
RecordConsistent(h) ==
    LET record == transactions[h]
    IN /\ blockExists(record.blockNumber)
       /\ getBlock(record.blockNumber).hash = record.blockHash
       /\ \E i \in 1..Len(getBlock(record.blockNumber).transactions) :
             getBlock(record.blockNumber).transactions[i].hash = h

\* C31: every transaction record is consistent with the chain, also after a
\* crash between the block write and the head write, a restart and further
\* appends.
C31_IndexConsistent == \A h \in DOMAIN transactions : RecordConsistent(h)

\* The same for the records of blockchain.js, which carry the block hash.
C31_ModuleIndexConsistent == impl = "module" => C31_IndexConsistent

C31_Witness ==
    /\ impl = "module"
    /\ outcome = "receipt"
    /\ state.blockHeight = 1
    /\ \E h \in DOMAIN transactions :
          /\ transactions[h].blockNumber = 1
          /\ transactions[h].blockHash # getBlock(1).hash

-----------------------------------------------------------------------------
(* calculateMerkleRoot (SpecMerkle) *)

\* The leaf digests of a transaction list.
Leaves(list) == [i \in 1..Len(list) |-> sha256(stringifyTx(list[i], TRUE))]

RECURSIVE DupLastRoot(_)
\* The root by the duplicate-last-node rule: a level of odd size is extended
\* by a copy of its last digest, then the digests are paired left to right.
DupLastRoot(level) ==
    IF Len(level) = 1 THEN level[1]
    ELSE LET padded == IF Len(level) % 2 = 1 THEN Append(level, level[Len(level)])
                       ELSE level
         IN DupLastRoot([k \in 1..(Len(padded) \div 2) |->
                            sha256(padded[2 * k - 1] \o padded[2 * k])])

\* C28: for a non-empty list the root is built level by level, pairing digests
\* left to right as sha256(left + right), an unpaired last digest combined
\* with itself and never promoted unchanged, until one digest remains; for one
\* transaction the root is its leaf digest.
C28_DuplicateLast ==
    merkleOutput # NoRoot =>
        LET l == Leaves(merkleInput)
        IN /\ merkleOutput = DupLastRoot(l)
           /\ Len(l) = 1 => merkleOutput = l[1]
           /\ Len(l) = 2 => merkleOutput = sha256(l[1] \o l[2])
           /\ Len(l) = 3 =>
                merkleOutput = sha256(sha256(l[1] \o l[2]) \o sha256(l[3] \o l[3]))

C28_Witness ==
    /\ merkleOutput # NoRoot
    /\ Len(merkleInput) = 3
    /\ merkleInput[1] # merkleInput[3]
    /\ merkleOutput = DupLastRoot(Leaves(merkleInput))

\* C29: the root is order-sensitive: swapping two distinct transactions of a
\* list, of even or odd length, gives a different root.
C29_OrderSensitive ==
    [][(merkleOutput # NoRoot /\ merkleInput' # merkleInput) =>
          merkleOutput' # merkleOutput]_vars

C29_Witness ==
    /\ merkleOutput # NoRoot
    /\ Len(merkleInput) = 3
    /\ merkleInput[2] # merkleInput[3]
    /\ merkleInput[1] = merkleInput[2]


(***************************************************************************)
(* Properties of the HTTP routes                                           *)
(***************************************************************************)

\* The OTP records that a step turns from unverified to verified.
NewlyVerified ==
    {k \in 1..Len(otpCodes) : ~otpCodes[k].verified /\ otpCodes'[k].verified}

\* C35: an OTP is single-use and time-limited: verifyOTP(requestId, code)
\* returns true at most once per OTP record, only for the record with that
\* requestId and code, never at or after its expiresAt; a failed verification
\* leaves every record as it was, and a verified record never changes again.
C35_OtpSingleUse ==
    [][/\ Len(otpCodes') >= Len(otpCodes)
       /\ \A k \in 1..Len(otpCodes) :
            otpCodes[k].verified => otpCodes'[k] = otpCodes[k]
       /\ \A k \in NewlyVerified :
            /\ call'.requestId = otpCodes[k].requestId
            /\ call'.otp = otpCodes[k].code
            /\ now < otpCodes[k].expiresAt
            /\ outcome' \in {"verify:200", "verify:500"}
       /\ (now' = now /\ outcome' \in {"verify:200", "verify:500"}) =>
            Cardinality(NewlyVerified) = 1
       /\ (now' = now /\ outcome' = "verify:400") => otpCodes' = otpCodes]_vars

\* A verified OTP was presented again and refused.
C35_Witness ==
    \E k \in 1..Len(otpCodes) :
        /\ otpCodes[k].verified
        /\ outcome = "verify:400"
        /\ call = [requestId |-> otpCodes[k].requestId, otp |-> otpCodes[k].code]


\* C36: a consent is granted for patient P only if an OTP issued for P was
\* verified in that same request: the request that adds a consent record
\* for P turns an OTP record of P from unverified to verified.
C36_ConsentNeedsOwnOtp ==
    [][Len(consents') > Len(consents) =>
          \E k \in NewlyVerified :
              otpCodes[k].patientId = consents'[Len(consents')].patientId]_vars

\* The part that the code keeps: no consent without an OTP verified in the
\* same request, whoever it was issued for.
C36_ConsentNeedsSomeOtp ==
    [][Len(consents') > Len(consents) => Cardinality(NewlyVerified) = 1]_vars

\* A patient has an active consent and was never issued an OTP.
C36_Witness ==
    \E c \in 1..Len(consents) :
        /\ consents[c].status = "active"
        /\ \A k \in 1..Len(otpCodes) : otpCodes[k].patientId # consents[c].patientId


\* The txHash h of a record of the application store resolves to a
\* transaction of the given type that the ledger holds: its record file is
\* there and the block that the record names contains it.
Resolves(h, type) ==
    /\ h \in DOMAIN transactions
    /\ transactions[h].tx.hash = h
    /\ transactions[h].tx.type = type
    /\ blockExists(transactions[h].blockNumber)
    /\ \E i \in 1..Len(getBlock(transactions[h].blockNumber).transactions) :
          getBlock(transactions[h].blockNumber).transactions[i].hash = h

\* C37: every consent record and every emergency access-log record carries a
\* txHash that resolves to a transaction persisted in the ledger, after any
\* sequence of consent-verify and emergency-access requests, failing ones
\* included.
C37_RecordsResolve ==
    /\ \A c \in 1..Len(consents) : Resolves(consents[c].txHash, "CONSENT_GRANTED")
    /\ \A a \in 1..Len(accessLogs) : Resolves(accessLogs[a].txHash, "EMERGENCY_ACCESS")

\* A consent and an emergency access are on record and the last request failed.
C37_Witness ==
    /\ Len(consents) = 1
    /\ Len(accessLogs) = 1
    /\ outcome \in {"verify:500", "emergency:500"}


\* The instants at which a request can be handled.
RouteTimes == {k * OtpLifetime : k \in 0..MaxOtpLifetimes}

\* The DID_REGISTRATION transactions that the ledger holds for a NIK.
Registrations(nik) ==
    {h \in DOMAIN transactions :
        /\ transactions[h].tx.type = "DID_REGISTRATION"
        /\ \E t1 \in RouteTimes, t2 \in RouteTimes :
              transactions[h].tx.data =
                  registrationData(nik, "did:medchain:" \o sha256(nik \o NumToStr(t1)), t2)}

\* C38: for each NIK at most one DID_REGISTRATION transaction is appended,
\* and every patient holding a DID has its DID_REGISTRATION transaction in
\* the ledger.
C38_DidRegistered ==
    \A p \in 1..Len(patients) :
        /\ Cardinality(Registrations(patients[p].nik)) <= 1
        /\ patients[p].did # NoDid =>
              \E h \in Registrations(patients[p].nik), t \in RouteTimes :
                  transactions[h].tx.data =
                      registrationData(patients[p].nik, patients[p].did, t)

\* The parts that the code keeps: at most one DID_REGISTRATION per NIK, a DID
\* never changes once set, and a rejected request changes nothing.
C38_AtMostOneRegistration ==
    \A nik \in Niks : Cardinality(Registrations(nik)) <= 1

C38_DidStable ==
    [][/\ \A p \in 1..Len(patients) :
            patients[p].did # NoDid =>
                Len(patients') >= p /\ patients'[p] = patients[p]
       /\ (now' = now /\ outcome' = "register:400") =>
            /\ patients' = patients
            /\ blocks' = blocks /\ transactions' = transactions
            /\ state' = state /\ stateFile' = stateFile]_vars

\* A patient holds a DID that no transaction registers, and the next
\* register request for them was rejected.
C38_Witness ==
    /\ outcome = "register:400"
    /\ \E p \in 1..Len(patients) :
          /\ patients[p].did # NoDid
          /\ Registrations(patients[p].nik) = {}


\* The transaction that a step appends is a CONSENT_REVOKED.
AppendsRevocation ==
    /\ Len(appended') = Len(appended) + 1
    /\ appended'[Len(appended')].type = "CONSENT_REVOKED"

\* C39: revocation is permanent, and a CONSENT_REVOKED transaction is
\* appended only when the request names an existing consent that is active:
\* the step that appends it turns that consent from active to revoked.
C39_RevokedOnlyForActive ==
    [][/\ \A k \in 1..Len(consents) :
            consents[k].status = "revoked" =>
                k \notin {j \in 1..Len(consents') :
                            consents'[j].patientId = consents[k].patientId
                            /\ consents'[j].status = "active"}
       /\ AppendsRevocation =>
            \E k \in 1..Len(consents) :
                /\ consents[k].status = "active"
                /\ consents'[k].status = "revoked"
                /\ appended'[Len(appended')].data =
                       "{consentId:" \o consents[k].consentId \o "}"]_vars

\* The part that the code keeps: a revoked consent is never returned by
\* getPatientConsents again.
C39_RevocationPermanent ==
    [][\A k \in 1..Len(consents) :
          consents[k].status = "revoked" =>
              /\ Len(consents') >= k
              /\ consents'[k].status = "revoked"
              /\ consents'[k].consentId = consents[k].consentId]_vars

\* The ledger holds a CONSENT_REVOKED transaction for a consent that was
\* never granted.
C39_Witness ==
    \E i \in 1..Len(appended) :
        /\ appended[i].type = "CONSENT_REVOKED"
        /\ \A k \in 1..Len(consents) :
              appended[i].data # "{consentId:" \o consents[k].consentId \o "}"

====
